---- MODULE Spec2Model ----
(***************************************************************************)
(* A model of the WakaTime stats pipeline of github-readme-stats:          *)
(*   src/src/fetchers/wakatime.js  (fetchers, legacy absolute override)    *)
(*   src/unnamed/part_001          (fetchers, proportional correction)     *)
(*   src/api/wakatime.js           (the HTTP handler and its debug branch) *)
(*                                                                         *)
(* Modelling conventions                                                   *)
(*  - A JavaScript object is a TLA+ record; a property that is undefined   *)
(*    is a field that is not in the record's DOMAIN.                       *)
(*  - A calendar date string "YYYY-MM-DD" is the triple <<y, m, d>>; a     *)
(*    Date object built from such a string is the number of days since    *)
(*    1970-01-01 (UTC midnight; the process runs with TZ = UTC, so that    *)
(*    setDate/getDate and toISOString agree on the calendar day).          *)
(*  - Seconds are integers; a JavaScript number that is a quotient (the    *)
(*    correction factor, a fractional hours value) is an exact rational    *)
(*    <<numerator, denominator>> in lowest terms.                          *)
(*  - api_domain only selects the host of the URLs and is left out; a      *)
(*    request is the record of the URL's other parts and of its headers.   *)
(*  - An async function runs up to its first await in one step; a request  *)
(*    that settles is one step, which runs the function to its next await  *)
(*    or to its end. The continuation of the handler after Promise.all is  *)
(*    a step of its own (it may be delayed, never reordered).              *)
(*  - src/unnamed/part_000 and part_002 are earlier snapshots of the       *)
(*    fetcher module (without credential, without adjustment).             *)
(***************************************************************************)
EXTENDS Integers, Sequences, FiniteSets, TLC

VARIABLES
    \* the request and the environment
    username, api_key, range,               \* req.query.username, WAKATIME_API_KEY, req.query.range
    envActual, envTotal,                    \* WAKATIME_ACTUAL_HOURS, WAKATIME_TOTAL_HOURS
    variant,                                \* which fetcher module is deployed
    debug, today,                           \* req.query.debug === "true", the current date
    \* fetchWakatimeStats
    statsPc, statsRequests, statsUpstream, statsRaised, statsResult, correctionCalls,
    \* fetchAllTimeSinceToday
    allTimePc, allTimeRequests, allTimeUpstream, allTimeResult,
    \* fetchSummariesRange: arguments, chunk list, position, requests, results
    start, end, chunks, sumPc, chunkRequests, chunkUpstream, chunkResults, sumResult,
    \* the handler of api/wakatime.js
    hPc, response,
    \* applyCorrection called on its own: arguments, returned object, position
    payload, hoursArg, corrected, corrPc

inputVars == <<username, api_key, range, envActual, envTotal, variant, debug, today>>
statsVars == <<statsPc, statsRequests, statsUpstream, statsRaised, statsResult, correctionCalls>>
allTimeVars == <<allTimePc, allTimeRequests, allTimeUpstream, allTimeResult>>
chunkVars ==
    <<start, end, chunks, sumPc, chunkRequests, chunkUpstream, chunkResults, sumResult>>
handlerVars == <<hPc, response>>
corrVars == <<payload, hoursArg, corrected, corrPc>>
vars == <<inputVars, statsVars, allTimeVars, chunkVars, handlerVars, corrVars>>

(***************************************************************************)
(* Dates                                                                   *)
(***************************************************************************)

\* new Date("YYYY-MM-DD"): the day number of a calendar date (proleptic Gregorian).
DateParse(iso) ==
    LET y0 == iso[1]
        m == iso[2]
        d == iso[3]
        y == IF m <= 2 THEN y0 - 1 ELSE y0
        era == y \div 400
        yoe == y - era * 400
        mp == IF m > 2 THEN m - 3 ELSE m + 9
        doy == (153 * mp + 2) \div 5 + d - 1
        doe == yoe * 365 + yoe \div 4 - yoe \div 100 + doy
    IN era * 146097 + doe - 719468

\* date.toISOString().split("T")[0]: the calendar date of a day number.
ToISODate(days) ==
    LET z == days + 719468
        era == z \div 146097
        doe == z - era * 146097
        yoe == (doe - doe \div 1460 + doe \div 36524 - doe \div 146096) \div 365
        y == yoe + era * 400
        doy == doe - (365 * yoe + yoe \div 4 - yoe \div 100)
        mp == (5 * doy + 2) \div 153
        d == doy - (153 * mp + 2) \div 5 + 1
        m == IF mp < 10 THEN mp + 3 ELSE mp - 9
    IN <<IF m <= 2 THEN y + 1 ELSE y, m, d>>

(***************************************************************************)
(* fetchSummariesRange: chunk generation                                   *)
(***************************************************************************)

\* A plausible slip: 365 added instead of 364.
ChunkEndPlus365(currentStart, endDate) ==
    IF currentStart + 365 > endDate THEN endDate ELSE currentStart + 365

\* currentEnd: currentStart + 364 days, clipped to endDate.
ChunkEnd(currentStart, endDate) ==
    IF currentStart + 364 > endDate THEN endDate ELSE currentStart + 364

RECURSIVE GenerateChunks(_, _)
\* The while loop that fills `chunks`.
GenerateChunks(currentStart, endDate) ==
    IF currentStart < endDate
    THEN LET currentEnd == ChunkEnd(currentStart, endDate)
         IN <<[start |-> ToISODate(currentStart), end |-> ToISODate(currentEnd)]>>
            \o GenerateChunks(currentEnd + 1, endDate)
    ELSE <<>>

(***************************************************************************)
(* Rationals, formatTime, applyCorrection                                  *)
(***************************************************************************)

RECURSIVE Gcd(_, _)
Gcd(a, b) == IF b = 0 THEN a ELSE Gcd(b, a % b)

\* The rational n/d (n >= 0, d > 0) in lowest terms.
Rat(n, d) == LET g == Gcd(n, d) IN <<n \div g, d \div g>>

\* Math.round(x * q) for an integer x >= 0 and a rational q >= 0 (half rounds up).
RoundMul(x, q) == (2 * x * q[1] + q[2]) \div (2 * q[2])

\* formatTime: the hours and minutes the text is built from.
formatTime(totalSeconds) ==
    [hrs |-> totalSeconds \div 3600, mins |-> (totalSeconds % 3600) \div 60]

Has(obj, f) == f \in DOMAIN obj

\* obj.f || dflt for a numeric property (undefined and 0 are falsy).
OrElse(obj, f, dflt) == IF Has(obj, f) /\ obj[f] # 0 THEN obj[f] ELSE dflt

\* obj with property f set to v (added when it was undefined).
Put(obj, f, v) == [k \in DOMAIN obj \cup {f} |-> IF k = f THEN v ELSE obj[k]]

\* A plausible slip: the entry is rebuilt from scratch, so the spread fields are lost.
CorrectLangNoSpread(lang, correctionFactor) ==
    LET correctedSeconds == RoundMul(OrElse(lang, "total_seconds", 0), correctionFactor)
        t == formatTime(correctedSeconds)
    IN [name |-> lang.name, total_seconds |-> correctedSeconds,
        hours |-> t.hrs, minutes |-> t.mins, text |-> t]

\* One language entry after correction: {...lang, total_seconds, hours, minutes, text}.
CorrectLang(lang, correctionFactor) ==
    LET correctedSeconds == RoundMul(OrElse(lang, "total_seconds", 0), correctionFactor)
        t == formatTime(correctedSeconds)
    IN Put(Put(Put(Put(lang, "total_seconds", correctedSeconds),
                   "hours", t.hrs), "minutes", t.mins), "text", t)

\* stats.total_seconds_including_other_language || stats.total_seconds || 0
apiTotalSeconds(stats) ==
    OrElse(stats, "total_seconds_including_other_language",
           OrElse(stats, "total_seconds", 0))

\* The body of applyCorrection after the early return; actualHours is a rational.
ScalePayload(stats, actualHours) ==
    LET actualTotalSeconds == Rat(actualHours[1] * 3600, actualHours[2])
        correctionFactor ==
            Rat(actualTotalSeconds[1], actualTotalSeconds[2] * apiTotalSeconds(stats))
        \* stats.total_seconds is assigned first ...
        s1 == Put(stats, "total_seconds",
                  RoundMul(stats.total_seconds, correctionFactor))
        \* ... and is read again when the other total is undefined or 0
        s2 == Put(s1, "total_seconds_including_other_language",
                  RoundMul(OrElse(s1, "total_seconds_including_other_language",
                                  s1.total_seconds), correctionFactor))
        s3 == Put(s2, "human_readable_total", formatTime(s2.total_seconds))
        s4 == Put(s3, "human_readable_total_including_other_language",
                  formatTime(s3.total_seconds_including_other_language))
        s5 == IF Has(s4, "languages")
              THEN Put(s4, "languages",
                       [i \in DOMAIN s4.languages |->
                           CorrectLang(s4.languages[i], correctionFactor)])
              ELSE s4
    IN Put(Put(Put(s5, "is_corrected", TRUE),
               "correction_factor", correctionFactor),
           "actual_hours_source", "WAKATIME_ACTUAL_HOURS")

\* A plausible slip: the payload is marked before the early return.
applyCorrectionMarksFirst(stats, actualHours) ==
    IF apiTotalSeconds(stats) <= 0
    THEN Put(stats, "is_corrected", TRUE)
    ELSE ScalePayload(stats, actualHours)

\* applyCorrection(stats, actualHours): the object it returns (the argument, mutated).
applyCorrection(stats, actualHours) ==
    IF apiTotalSeconds(stats) <= 0 THEN stats ELSE ScalePayload(stats, actualHours)

(***************************************************************************)
(* Bounds and input sets                                                   *)
(***************************************************************************)

\* The longest requested span, in days after start (three chunks need more than 729).
MaxSpan == 735

\* Requested start dates (one before a leap day).
StartDates == {<<2020, 3, 10>>, <<2019, 12, 31>>, <<2023, 1, 1>>}

\* Language lists of an upstream stats payload (percent as reported upstream).
LangLists ==
    { <<[name |-> "Go", total_seconds |-> 3, percent |-> 30],
        [name |-> "JS", total_seconds |-> 7, percent |-> 70]>>,
      <<[name |-> "JS", total_seconds |-> 5, percent |-> 50],
        [name |-> "C", percent |-> 0]>> }

\* Upstream stats payloads (the data field of a stats response).
SmallPayloads ==
    { p \in UNION { [D -> {0, 7, 10, 12}] :
                    D \in SUBSET {"total_seconds", "total_seconds_including_other_language"} } :
        \* upstream never omits total_seconds while sending the other total
        Has(p, "total_seconds_including_other_language") => Has(p, "total_seconds") }

\* A payload with the totals of the documented example (API total 100000 s).
BigPayload ==
    [total_seconds |-> 90000, total_seconds_including_other_language |-> 100000,
     languages |-> <<[name |-> "JS", total_seconds |-> 60000, percent |-> 60],
                     [name |-> "Go", total_seconds |-> 30000, percent |-> 30]>>]

Payloads ==
    SmallPayloads \cup { Put(p, "languages", l) : p \in SmallPayloads, l \in LangLists }

\* Values of the actual-hours argument (positive rationals, in hours).
HoursValues == {<<1, 1>>, <<3, 1>>, <<1, 2>>, <<1, 720>>}

\* 500/9 h = 200000 s, twice the API total of BigPayload.
BigHours == <<500, 9>>

\* The calls of applyCorrection that are explored.
CorrectionInputs ==
    (Payloads \X HoursValues) \cup {<<BigPayload, BigHours>>, <<BigPayload, <<1, 1>>>>}

\* Values of req.query.username and of WAKATIME_API_KEY ("" is undefined or empty: falsy).
Usernames == {"", "alice"}
ApiKeys == {"", "key"}

\* Values of req.query.range ("" is a missing range).
Ranges == {"", "bogus", "last_7_days", "last_30_days", "last_6_months", "last_year", "all_time"}

\* Values of the two hours variables of the environment ("" is unset).
EnvActualValues == {"", "abc", "0.5"}
EnvTotalValues == {"", "0", "3h"}

\* The two fetcher modules: part_001 ("correction") and src/fetchers/wakatime.js ("override").
Variants == {"correction", "override"}

\* The data field of the stats responses that are explored.
StatsPayloads ==
    { [total_seconds |-> 10, total_seconds_including_other_language |-> 12,
       languages |-> <<[name |-> "Go", total_seconds |-> 3, percent |-> 30],
                       [name |-> "JS", total_seconds |-> 7, percent |-> 70]>>],
      [total_seconds |-> 7],
      [total_seconds |-> 0, total_seconds_including_other_language |-> 0] }

(***************************************************************************)
(* Errors and upstream outcomes                                            *)
(***************************************************************************)

MissingParamError(params) == [name |-> "MissingParamError", params |-> params]

\* new CustomError(`Could not resolve to a User with the login of '${login}'`, type)
CustomError(login, type) == [name |-> "CustomError", login |-> login, type |-> type]

\* The TypeError of accessing property prop of undefined or null.
TypeError(prop) == [name |-> "TypeError", property |-> prop]

\* What axios rejects with: a response with a status, or no response at all.
AxiosErrors ==
    { [name |-> "AxiosError", code |-> "ERR_BAD_REQUEST", response |-> [status |-> 404]],
      [name |-> "AxiosError", code |-> "ERR_BAD_REQUEST", response |-> [status |-> 401]],
      [name |-> "AxiosError", code |-> "ERR_BAD_RESPONSE", response |-> [status |-> 500]],
      \* a failure after a 2xx response arrived (a body that cannot be used)
      [name |-> "AxiosError", code |-> "ERR_BAD_RESPONSE", response |-> [status |-> 200]],
      [name |-> "AxiosError", code |-> "ERR_NETWORK"],
      [name |-> "AxiosError", code |-> "ECONNABORTED"] }

\* What a stats request can end with: a JSON object body (with or without a data field),
\* a JSON null body, or a rejection.
StatsOutcomes ==
    { [kind |-> "json", body |-> [data |-> p]] : p \in StatsPayloads }
    \cup { [kind |-> "json", body |-> <<>>], [kind |-> "null"] }
    \cup { [kind |-> "error", err |-> e] : e \in AxiosErrors }

(***************************************************************************)
(* fetchWakatimeStats                                                      *)
(***************************************************************************)

VALID_RANGES == {"last_7_days", "last_30_days", "last_6_months", "last_year", "all_time"}

\* A plausible slip: the requested range is passed on unchecked.
NormalizeRangeUnchecked(r) == r

\* VALID_RANGES.includes(range) ? range : "last_7_days", for a range r.
NormalizeRange(r) == IF r \in VALID_RANGES THEN r ELSE "last_7_days"

\* const validRange = VALID_RANGES.includes(range) ? range : "last_7_days"
validRange == NormalizeRange(range)

\* A plausible slip: the subject of the first version, which knew no api_key.
userPathUsername == username

\* api_key ? "current" : username
userPath == IF api_key # "" THEN "current" ELSE username

\* Buffer.from(`${api_key}:`).toString("base64")
Base64Key(key) == <<"base64", key, ":">>

\* The request of axios.get(url, config): the URL's parts and the headers.
StatsRequest ==
    IF api_key # ""
    THEN [subject |-> userPath, range |-> validRange, is_including_today |-> TRUE,
          Authorization |-> <<"Basic", Base64Key(api_key)>>]
    ELSE [subject |-> userPath, range |-> validRange, is_including_today |-> TRUE]

NaN == <<0, 0>>

\* parseFloat on the strings of the environment (a numeric prefix is parsed).
parseFloat(str) ==
    CASE str = "0.5" -> <<1, 2>>
      [] str = "3h" -> <<3, 1>>
      [] str = "0" -> <<0, 1>>
      [] OTHER -> NaN

\* The hours of a string: <<hours>> when it parses to a positive number, else <<>> (null).
PositiveHours(str) ==
    LET hours == parseFloat(str)
    IN IF str # "" /\ hours # NaN /\ hours[1] > 0 THEN <<hours>> ELSE <<>>

\* getActualTotalHours() of part_001: WAKATIME_ACTUAL_HOURS || WAKATIME_TOTAL_HOURS.
getActualTotalHours == PositiveHours(IF envActual # "" THEN envActual ELSE envTotal)

\* hours * 3600 (the explored hours make it an integer).
HoursToSeconds(hours) == (hours[1] * 3600) \div hours[2]

\* getOverrideTotal(): <<override>> or <<>> (null). The legacy module reads
\* WAKATIME_TOTAL_HOURS alone, part_001 goes through getActualTotalHours.
getOverrideTotal ==
    LET hours == IF variant = "correction" THEN getActualTotalHours
                 ELSE PositiveHours(envTotal)
    IN IF hours # <<>>
       THEN <<[total_seconds |-> HoursToSeconds(hours[1]),
               text |-> formatTime(HoursToSeconds(hours[1])),
               is_override |-> TRUE]>>
       ELSE <<>>

\* The legacy override of lines 259-263: both totals and both texts are replaced.
applyOverride(stats, override) ==
    Put(Put(Put(Put(Put(stats,
        "human_readable_total", override.text),
        "human_readable_total_including_other_language", override.text),
        "total_seconds", override.total_seconds),
        "total_seconds_including_other_language", override.total_seconds),
        "is_override", TRUE)

\* A plausible slip: the adjustment is made for every range.
AdjustsAlways == TRUE

\* validRange === "all_time"
Adjusts == validRange = "all_time"

\* The hours the adjustment of this module uses: <<hours>> or <<>>.
AdjustHours ==
    IF variant = "correction" THEN getActualTotalHours ELSE PositiveHours(envTotal)

\* A plausible slip: the guard of the first version, which knew no api_key.
MissingParamsNoKey == IF username = "" THEN <<"username">> ELSE <<>>

\* if (!username && !api_key): the parameters reported missing.
MissingParams == IF username = "" /\ api_key = "" THEN <<"username">> ELSE <<>>

\* A plausible slip: the login is the requested subject.
NotFoundLoginUserPath == userPath

\* username || "current"
NotFoundLogin == IF username # "" THEN username ELSE "current"

\* The try block after the response arrived: [kind, value | error, calls], where
\* calls counts the adjustments made and kind "raised" is an exception inside try.
StatsTry(o) ==
    IF o.kind = "error" THEN [kind |-> "raised", error |-> o.err, calls |-> 0]
    ELSE IF o.kind = "null" THEN [kind |-> "raised", error |-> TypeError("data"), calls |-> 0]
    ELSE IF Adjusts /\ AdjustHours # <<>>
         THEN IF ~Has(o.body, "data")
              THEN \* stats is undefined: its first property access throws
                   [kind |-> "raised",
                    error |-> TypeError(IF variant = "correction"
                                        THEN "total_seconds_including_other_language"
                                        ELSE "human_readable_total"),
                    calls |-> 1]
              ELSE [kind |-> "returned",
                    value |-> IF variant = "correction"
                              THEN applyCorrection(o.body.data, AdjustHours[1])
                              ELSE applyOverride(o.body.data, getOverrideTotal[1]),
                    calls |-> 1]
         ELSE IF Has(o.body, "data")
              THEN [kind |-> "returned", value |-> o.body.data, calls |-> 0]
              ELSE [kind |-> "returned", calls |-> 0]

\* The catch block: what is thrown for the exception err of the try block.
StatsCatch(err) ==
    IF ~Has(err, "response") THEN TypeError("status")
    ELSE IF err.response.status < 200 \/ err.response.status > 299
         THEN CustomError(NotFoundLogin, "WAKATIME_USER_NOT_FOUND")
         ELSE err

\* The synchronous part of a call: the parameter check and the request.
StatsCallStep ==
    /\ statsPc = "idle"
    /\ IF MissingParams # <<>>
       THEN /\ statsPc' = "thrown"
            /\ statsRaised' = <<MissingParamError(MissingParams)>>
            /\ statsResult' = [kind |-> "thrown", error |-> MissingParamError(MissingParams)]
            /\ UNCHANGED statsRequests
       ELSE /\ statsPc' = "requesting"
            /\ statsRequests' = Append(statsRequests, StatsRequest)
            /\ UNCHANGED <<statsRaised, statsResult>>
    /\ UNCHANGED <<statsUpstream, correctionCalls>>

\* The stats request settles with outcome o and the call returns or throws.
StatsSettleStep(o) ==
    /\ statsPc = "requesting"
    /\ statsUpstream' = <<o>>
    /\ LET t == StatsTry(o)
       IN /\ correctionCalls' = correctionCalls + t.calls
          /\ IF t.kind = "raised"
             THEN /\ statsRaised' = <<t.error>>
                  /\ statsResult' = [kind |-> "thrown", error |-> StatsCatch(t.error)]
                  /\ statsPc' = "thrown"
             ELSE /\ statsRaised' = <<>>
                  /\ statsResult' = IF Has(t, "value")
                                    THEN [kind |-> "returned", value |-> t.value]
                                    ELSE [kind |-> "returned"]
                  /\ statsPc' = "returned"
    /\ UNCHANGED statsRequests

StatsIdle ==
    /\ statsPc = "idle"
    /\ statsRequests = <<>>
    /\ statsUpstream = <<>>
    /\ statsRaised = <<>>
    /\ statsResult = [kind |-> "none"]
    /\ correctionCalls = 0


(***************************************************************************)
(* fetchAllTimeSinceToday                                                  *)
(***************************************************************************)

\* err.message, as the words it is made of.
ErrMessage(err) ==
    CASE err.name = "AxiosError" -> <<"AxiosError", err.code>>
      [] err.name = "TypeError" -> <<"Cannot access properties of undefined", err.property>>
      [] err.name = "CustomError" ->
            <<"Could not resolve to a User with the login of", err.login>>
      [] OTHER -> <<"Missing params">> \o err.params

\* {error: err.message, status: err.response?.status, statusText: ...}
ErrorShape(err) ==
    IF Has(err, "response")
    THEN [error |-> ErrMessage(err), status |-> err.response.status]
    ELSE [error |-> ErrMessage(err)]

\* The value returned without a request when no api_key is given.
NoApiKey == [error |-> <<"no_api_key">>]

\* The data field of the all-time responses that are explored.
AllTimeOutcomes ==
    { [kind |-> "json", body |-> [data |-> [text |-> "5 hrs", total_seconds |-> 18000,
                                            daily_average |-> 600]]],
      [kind |-> "json", body |-> <<>>],
      [kind |-> "null"],
      [kind |-> "error", err |-> [name |-> "AxiosError", code |-> "ERR_BAD_REQUEST",
                                  response |-> [status |-> 401]]],
      [kind |-> "error", err |-> [name |-> "AxiosError", code |-> "ERR_NETWORK"]] }

\* The request of fetchAllTimeSinceToday and of fetchSummariesChunk for a chunk.
AllTimeRequest ==
    [subject |-> "current", Authorization |-> <<"Basic", Base64Key(api_key)>>]

\* A plausible slip: the request is made without looking at api_key.
AllTimeCallStepNoKeyCheck ==
    /\ allTimePc = "idle"
    /\ allTimePc' = "requesting"
    /\ allTimeRequests' = Append(allTimeRequests, AllTimeRequest)
    /\ UNCHANGED <<allTimeUpstream, allTimeResult>>

\* The synchronous part of fetchAllTimeSinceToday({api_domain, api_key}).
AllTimeCallStep ==
    /\ allTimePc = "idle"
    /\ IF api_key = ""
       THEN /\ allTimePc' = "done"
            /\ allTimeResult' = <<NoApiKey>>
            /\ UNCHANGED allTimeRequests
       ELSE /\ allTimePc' = "requesting"
            /\ allTimeRequests' = Append(allTimeRequests, AllTimeRequest)
            /\ UNCHANGED allTimeResult
    /\ UNCHANGED allTimeUpstream

\* A plausible slip: no catch, the exception of the request leaves the function.
AllTimeReturnPropagates(o) ==
    IF o.kind = "error" THEN <<o.err>>
    ELSE IF o.kind = "null" THEN <<TypeError("data")>>
    ELSE IF Has(o.body, "data") THEN <<o.body.data>> ELSE <<>>

\* What fetchAllTimeSinceToday returns for outcome o: <<value>>, or <<>> for undefined.
AllTimeReturn(o) ==
    IF o.kind = "error" THEN <<ErrorShape(o.err)>>
    ELSE IF o.kind = "null" THEN <<ErrorShape(TypeError("data"))>>
    ELSE IF Has(o.body, "data") THEN <<o.body.data>> ELSE <<>>

\* The all-time request settles with outcome o and the call returns.
AllTimeSettleStep(o) ==
    /\ allTimePc = "requesting"
    /\ allTimeUpstream' = <<o>>
    /\ allTimeResult' = AllTimeReturn(o)
    /\ allTimePc' = "done"
    /\ UNCHANGED allTimeRequests

AllTimeIdle ==
    /\ allTimePc = "idle"
    /\ allTimeRequests = <<>>
    /\ allTimeUpstream = <<>>
    /\ allTimeResult = <<>>

(***************************************************************************)
(* fetchSummariesChunk, fetchSummariesRange                                *)
(***************************************************************************)

\* The days of the summaries responses that are explored.
Day1 ==
    [grand_total |-> [total_seconds |-> 100],
     languages |-> <<[name |-> "Go", total_seconds |-> 40],
                     [name |-> "JS", total_seconds |-> 60]>>]

\* A day that reports language seconds but no grand total.
Day2 == [languages |-> <<[name |-> "JS", total_seconds |-> 30], [name |-> "C"]>>]

\* What a chunk request can end with.
ChunkOutcomes ==
    { [kind |-> "json", body |-> [data |-> [days |-> <<Day1, Day2>>]]],
      [kind |-> "json", body |-> [data |-> [days |-> <<Day1>>]]],
      [kind |-> "json", body |-> [data |-> [days |-> <<Day2>>]]],
      [kind |-> "json", body |-> <<>>],
      \* a data field that is an object, not an array
      [kind |-> "json", body |-> [data |-> [junk |-> TRUE]]],
      [kind |-> "null"],
      [kind |-> "error", err |-> [name |-> "AxiosError", code |-> "ERR_BAD_REQUEST",
                                  response |-> [status |-> 429]]],
      \* the 15 second timeout of the chunk request
      [kind |-> "error", err |-> [name |-> "AxiosError", code |-> "ECONNABORTED"]] }

\* The request of fetchSummariesChunk for a chunk.
ChunkRequest(chunk) ==
    [subject |-> "current", start |-> chunk.start, end |-> chunk.end,
     Authorization |-> <<"Basic", Base64Key(api_key)>>, timeout |-> 15000]

\* data.data || [] for a settled chunk request.
ChunkData(o) ==
    IF o.kind = "json" /\ Has(o.body, "data") THEN o.body.data ELSE [days |-> <<>>]

RECURSIVE AllDays(_)
\* The days of all chunk results, in order.
AllDays(results) ==
    IF results = <<>> THEN <<>> ELSE Head(results).days \o AllDays(Tail(results))

\* day.grand_total?.total_seconds || 0
GrandTotal(day) ==
    IF Has(day, "grand_total") THEN OrElse(day.grand_total, "total_seconds", 0) ELSE 0

RECURSIVE SumGrandTotals(_)
SumGrandTotals(days) ==
    IF days = <<>> THEN 0 ELSE GrandTotal(Head(days)) + SumGrandTotals(Tail(days))

\* A plausible slip: every language of every day becomes an entry of its own.
MapAddAppends(map, name, secs) == Append(map, [name |-> name, total_seconds |-> secs])

\* languageMap.set(name, (languageMap.get(name) || 0) + secs); a Map keeps insertion order.
MapAdd(map, name, secs) ==
    IF \E i \in DOMAIN map : map[i].name = name
    THEN [i \in DOMAIN map |->
             IF map[i].name = name
             THEN [name |-> name, total_seconds |-> map[i].total_seconds + secs]
             ELSE map[i]]
    ELSE Append(map, [name |-> name, total_seconds |-> secs])

RECURSIVE AddLangs(_, _)
\* for (const lang of day.languages || [])
AddLangs(map, langs) ==
    IF langs = <<>> THEN map
    ELSE AddLangs(MapAdd(map, Head(langs).name, OrElse(Head(langs), "total_seconds", 0)),
                  Tail(langs))

RECURSIVE LanguageMap(_, _)
\* The language map after the days were visited in order.
LanguageMap(map, days) ==
    IF days = <<>> THEN map
    ELSE LanguageMap(AddLangs(map, IF Has(Head(days), "languages")
                                   THEN Head(days).languages ELSE <<>>),
                     Tail(days))

\* One entry put into a list sorted by descending total_seconds, after its equals.
InsertDesc(sorted, e) ==
    LET k == Cardinality({i \in DOMAIN sorted : sorted[i].total_seconds >= e.total_seconds})
    IN SubSeq(sorted, 1, k) \o <<e>> \o SubSeq(sorted, k + 1, Len(sorted))

RECURSIVE SortDesc(_, _)
\* .sort((a, b) => b.total_seconds - a.total_seconds): a stable sort.
SortDesc(sorted, rest) ==
    IF rest = <<>> THEN sorted ELSE SortDesc(InsertDesc(sorted, Head(rest)), Tail(rest))

\* totalSeconds > 0 ? (total_seconds / totalSeconds) * 100 : 0
PercentOf(secs, totalSeconds) ==
    IF totalSeconds > 0 THEN Rat(secs * 100, totalSeconds) ELSE <<0, 1>>

\* One entry of the languages array.
LangEntry(e, totalSeconds) ==
    [name |-> e.name, total_seconds |-> e.total_seconds,
     hours |-> e.total_seconds \div 3600,
     minutes |-> (e.total_seconds % 3600) \div 60,
     percent |-> PercentOf(e.total_seconds, totalSeconds)]

\* Lines 166-206: the aggregate of the chunk results.
Aggregate(results, chunkList, s, e) ==
    LET days == AllDays(results)
        totalSeconds == SumGrandTotals(days)
        map == LanguageMap(<<>>, days)
        entries == [i \in DOMAIN map |-> LangEntry(map[i], totalSeconds)]
    IN [total_seconds |-> totalSeconds,
        text |-> formatTime(totalSeconds),
        languages |-> SortDesc(<<>>, entries),
        days_count |-> Len(days),
        chunks_fetched |-> Len(chunkList),
        start |-> s,
        end |-> e]

\* What fetchSummariesRange returns once every chunk was fetched: the aggregate, or
\* the error shape of the TypeError of iterating a result that is no array.
SummariesReturn(results, chunkList, s, e) ==
    IF \E i \in DOMAIN results : ~Has(results[i], "days")
    THEN ErrorShape(TypeError("Symbol.iterator"))
    ELSE Aggregate(results, chunkList, s, e)

\* A plausible slip: Promise.all(chunks.map(...)), every chunk is requested at once.
SummariesCallStepParallel(s, e) ==
    /\ sumPc = "idle"
    /\ start' = s
    /\ end' = e
    /\ chunkResults' = <<>>
    /\ chunkUpstream' = <<>>
    /\ IF api_key = ""
       THEN /\ sumPc' = "done"
            /\ sumResult' = <<NoApiKey>>
            /\ UNCHANGED <<chunks, chunkRequests>>
       ELSE LET chunkList == GenerateChunks(DateParse(s), DateParse(e))
            IN /\ chunks' = chunkList
               /\ IF chunkList = <<>>
                  THEN /\ sumPc' = "done"
                       /\ sumResult' = <<SummariesReturn(<<>>, chunkList, s, e)>>
                       /\ UNCHANGED chunkRequests
                  ELSE /\ sumPc' = "fetching"
                       /\ chunkRequests' =
                             [i \in DOMAIN chunkList |-> ChunkRequest(chunkList[i])]
                       /\ UNCHANGED sumResult

\* The synchronous part of fetchSummariesRange({api_domain, api_key, start: s, end: e}).
SummariesCallStep(s, e) ==
    /\ sumPc = "idle"
    /\ start' = s
    /\ end' = e
    /\ chunkResults' = <<>>
    /\ chunkUpstream' = <<>>
    /\ IF api_key = ""
       THEN /\ sumPc' = "done"
            /\ sumResult' = <<NoApiKey>>
            /\ UNCHANGED <<chunks, chunkRequests>>
       ELSE LET chunkList == GenerateChunks(DateParse(s), DateParse(e))
            IN /\ chunks' = chunkList
               /\ IF chunkList = <<>>
                  THEN /\ sumPc' = "done"
                       /\ sumResult' = <<SummariesReturn(<<>>, chunkList, s, e)>>
                       /\ UNCHANGED chunkRequests
                  ELSE /\ sumPc' = "fetching"
                       /\ chunkRequests' = <<ChunkRequest(chunkList[1])>>
                       /\ UNCHANGED sumResult

\* A plausible slip: a failed chunk is skipped and the loop goes on.
ChunkFailedSkips(o) == FALSE

\* The await of fetchSummariesChunk throws for outcome o.
ChunkFailed(o) == o.kind \in {"error", "null"}

\* The request of the chunk in flight settles with outcome o.
ChunkSettleStep(o) ==
    /\ sumPc = "fetching"
    /\ chunkUpstream' = Append(chunkUpstream, o)
    /\ IF ChunkFailed(o)
       THEN /\ sumPc' = "done"
            /\ sumResult' = <<ErrorShape(IF o.kind = "error" THEN o.err
                                         ELSE TypeError("data"))>>
            /\ UNCHANGED <<chunkResults, chunkRequests>>
       ELSE LET results == Append(chunkResults, ChunkData(o))
            IN /\ chunkResults' = results
               /\ IF Len(results) < Len(chunks)
                  THEN /\ chunkRequests' =
                             Append(chunkRequests, ChunkRequest(chunks[Len(results) + 1]))
                       /\ UNCHANGED <<sumPc, sumResult>>
                  ELSE /\ sumPc' = "done"
                       /\ sumResult' = <<SummariesReturn(results, chunks, start, end)>>
                       /\ UNCHANGED chunkRequests
    /\ UNCHANGED <<start, end, chunks>>

ChunksIdle ==
    /\ start = <<2020, 3, 10>>
    /\ end = <<2020, 3, 10>>
    /\ chunks = <<>>
    /\ sumPc = "idle"
    /\ chunkRequests = <<>>
    /\ chunkUpstream = <<>>
    /\ chunkResults = <<>>
    /\ sumResult = <<>>

(***************************************************************************)
(* The handler of api/wakatime.js                                          *)
(***************************************************************************)

\* The auth object of both debug responses.
Auth ==
    [hasApiKey |-> api_key # "",
     endpoint |-> IF api_key # "" THEN <<"current", "(authenticated)">>
                  ELSE <<username, "(public)">>]

Null == [isNull |-> TRUE]

\* Math.round(seconds / 3600)
RoundHours(seconds) == RoundMul(seconds, <<1, 3600>>)

\* The correction field of the debug response.
CorrectionField(debugStats) ==
    IF Has(debugStats, "is_corrected") /\ debugStats.is_corrected
    THEN [active |-> TRUE, factor |-> debugStats.correction_factor,
          actual_hours |-> RoundHours(debugStats.total_seconds),
          env_var |-> "WAKATIME_ACTUAL_HOURS"]
    ELSE IF getOverrideTotal # <<>>
         THEN [active |-> TRUE, total_hours |-> RoundHours(getOverrideTotal[1].total_seconds),
               text |-> getOverrideTotal[1].text, env_var |-> "WAKATIME_TOTAL_HOURS (legacy)"]
         ELSE [active |-> FALSE, env_var |-> "WAKATIME_ACTUAL_HOURS (not set)"]

\* The all_time_since_today field; allTimeData is <<value>> or <<>> (undefined).
AllTimeField(allTimeData) ==
    IF allTimeData = <<>> THEN Null
    ELSE IF Has(allTimeData[1], "error") THEN [error |-> allTimeData[1]]
    ELSE [text |-> allTimeData[1].text,
          total_seconds |-> allTimeData[1].total_seconds,
          total_hours |-> RoundHours(allTimeData[1].total_seconds),
          daily_average |-> allTimeData[1].daily_average]

\* The summaries_range field; fetchSummariesRange always returns an object.
SummariesField(summariesData) ==
    IF Has(summariesData[1], "error") THEN [error |-> summariesData[1]]
    ELSE [text |-> summariesData[1].text,
          total_seconds |-> summariesData[1].total_seconds,
          total_hours |-> RoundHours(summariesData[1].total_seconds),
          days_count |-> summariesData[1].days_count,
          date_range |-> <<summariesData[1].start, summariesData[1].end>>,
          top_languages |-> SubSeq(summariesData[1].languages, 1,
                                   IF Len(summariesData[1].languages) < 5
                                   THEN Len(summariesData[1].languages) ELSE 5)]

\* The stats field of the debug response (the properties the model carries).
StatsField(debugStats) ==
    [is_corrected |-> Has(debugStats, "is_corrected") /\ debugStats.is_corrected,
     total_seconds |-> debugStats.total_seconds,
     languages_count |-> IF Has(debugStats, "languages") THEN Len(debugStats.languages)
                         ELSE 0]

\* A plausible slip: the catch sends the diagnostics that were gathered as well.
DebugErrorResponseWithDiagnostics(debugErr) ==
    [kind |-> "debugError", auth |-> Auth, error |-> ErrMessage(debugErr),
     all_time_since_today |-> allTimeResult, summaries_range |-> sumResult]

\* The body sent by the catch of the debug branch.
DebugErrorResponse(debugErr) ==
    [kind |-> "debugError", auth |-> Auth, error |-> ErrMessage(debugErr)]

\* The body sent after Promise.all fulfilled; an undefined debugStats throws into the catch.
DebugResponse ==
    IF ~Has(statsResult, "value")
    THEN DebugErrorResponse(TypeError("is_corrected"))
    ELSE [kind |-> "debug",
          auth |-> Auth,
          correction |-> CorrectionField(statsResult.value),
          all_time_since_today |-> AllTimeField(allTimeResult),
          summaries_range |-> SummariesField(sumResult),
          stats |-> StatsField(statsResult.value)]

\* guardAccess did not pass: its result is returned.
AccessDenied ==
    /\ hPc = "start"
    /\ hPc' = "responded"
    /\ response' = [kind |-> "accessDenied"]
    /\ UNCHANGED <<inputVars, statsVars, allTimeVars, chunkVars, corrVars>>

\* locale && !isLocaleAvailable(locale)
LocaleUnavailable ==
    /\ hPc = "start"
    /\ hPc' = "responded"
    /\ response' = [kind |-> "error", message |-> <<"Something went wrong">>,
                    secondaryMessage |-> "Language not found"]
    /\ UNCHANGED <<inputVars, statsVars, allTimeVars, chunkVars, corrVars>>

\* The debug branch up to the await: the three calls run to their first await.
HandlerStartDebug ==
    /\ hPc = "start"
    /\ debug
    /\ StatsCallStep
    /\ AllTimeCallStep
    /\ SummariesCallStep(<<2020, 3, 10>>, today)
    /\ hPc' = "awaiting"
    /\ UNCHANGED <<response, inputVars, corrVars>>

\* The card path up to the await of fetchWakatimeStats.
HandlerStartCard ==
    /\ hPc = "start"
    /\ ~debug
    /\ StatsCallStep
    /\ hPc' = "awaiting"
    /\ UNCHANGED <<response, inputVars, allTimeVars, chunkVars, corrVars>>

\* The stats request settles.
StatsSettle ==
    /\ \E o \in StatsOutcomes : StatsSettleStep(o)
    /\ UNCHANGED <<inputVars, allTimeVars, chunkVars, handlerVars, corrVars>>

\* The all-time request settles.
AllTimeSettle ==
    /\ \E o \in AllTimeOutcomes : AllTimeSettleStep(o)
    /\ UNCHANGED <<inputVars, statsVars, chunkVars, handlerVars, corrVars>>

\* The chunk request in flight settles.
ChunkSettle ==
    /\ \E o \in ChunkOutcomes : ChunkSettleStep(o)
    /\ UNCHANGED <<inputVars, statsVars, allTimeVars, handlerVars, corrVars>>

\* Promise.all settled: it rejects as soon as fetchWakatimeStats has thrown, and
\* fulfils once all three calls have returned. The continuation sends the response.
DebugRespond ==
    /\ hPc = "awaiting"
    /\ debug
    /\ \/ statsPc = "thrown"
       \/ statsPc = "returned" /\ allTimePc = "done" /\ sumPc = "done"
    /\ response' = IF statsPc = "thrown" THEN DebugErrorResponse(statsResult.error)
                   ELSE DebugResponse
    /\ hPc' = "responded"
    /\ UNCHANGED <<inputVars, statsVars, allTimeVars, chunkVars, corrVars>>

\* The card path after the await: the card, or the error card of the outer catch.
CardRespond ==
    /\ hPc = "awaiting"
    /\ ~debug
    /\ statsPc \in {"returned", "thrown"}
    /\ response' = IF statsPc = "thrown"
                   THEN [kind |-> "error", message |-> ErrMessage(statsResult.error),
                         show_repo_link |-> statsResult.error.name # "MissingParamError"]
                   ELSE [kind |-> "card", stats |-> statsResult]
    /\ hPc' = "responded"
    /\ UNCHANGED <<inputVars, statsVars, allTimeVars, chunkVars, corrVars>>

(***************************************************************************)
(* Specifications                                                          *)
(***************************************************************************)

\* The dates of "today" (0, 1 and 2 chunks from 2020-03-10).
TodayDates == {<<2020, 3, 10>>, <<2021, 3, 10>>, <<2021, 12, 25>>}

\* The ranges and the environments of the handler runs.
HandlerRanges == {"bogus", "last_year", "all_time"}
HandlerEnvs == {<<"", "">>, <<"0.5", "">>, <<"abc", "3h">>}

InputsIdle ==
    /\ username = "alice"
    /\ api_key = ""
    /\ range = ""
    /\ envActual = ""
    /\ envTotal = ""
    /\ variant = "correction"
    /\ debug = FALSE
    /\ today = <<2020, 3, 10>>

HandlerIdle ==
    /\ hPc = "none"
    /\ response = [kind |-> "none"]

CorrIdle ==
    /\ payload = [total_seconds |-> 0]
    /\ hoursArg = <<1, 1>>
    /\ corrected = [total_seconds |-> 0]
    /\ corrPc = "idle"

\* One invocation of the handler.
Init ==
    /\ username \in Usernames
    /\ api_key \in ApiKeys
    /\ range \in HandlerRanges
    /\ \E env \in HandlerEnvs : envActual = env[1] /\ envTotal = env[2]
    /\ variant \in Variants
    /\ debug \in BOOLEAN
    /\ today \in TodayDates
    /\ StatsIdle
    /\ AllTimeIdle
    /\ ChunksIdle
    /\ hPc = "start"
    /\ response = [kind |-> "none"]
    /\ CorrIdle

Next ==
    \/ AccessDenied
    \/ LocaleUnavailable
    \/ HandlerStartDebug
    \/ HandlerStartCard
    \/ StatsSettle
    \/ AllTimeSettle
    \/ ChunkSettle
    \/ DebugRespond
    \/ CardRespond

Spec == Init /\ [][Next]_vars

\* One call of fetchWakatimeStats({username, api_domain, range, api_key}).
InitStats ==
    /\ username \in Usernames
    /\ api_key \in ApiKeys
    /\ range \in Ranges
    /\ envActual \in EnvActualValues
    /\ envTotal \in EnvTotalValues
    /\ variant \in Variants
    /\ debug = FALSE
    /\ today = <<2020, 3, 10>>
    /\ StatsIdle
    /\ AllTimeIdle
    /\ ChunksIdle
    /\ HandlerIdle
    /\ CorrIdle

StatsCall ==
    /\ hPc = "none"
    /\ StatsCallStep
    /\ UNCHANGED <<inputVars, allTimeVars, chunkVars, handlerVars, corrVars>>

NextStats == StatsCall \/ StatsSettle

SpecStats == InitStats /\ [][NextStats]_vars

\* The (start, end) arguments of the explored fetchSummariesRange calls: 0 to 3 chunks.
SummaryRanges ==
    { <<<<2020, 3, 10>>, <<2020, 3, 10>>>>, <<<<2020, 3, 10>>, <<2020, 5, 1>>>>,
      <<<<2020, 3, 10>>, <<2021, 3, 10>>>>, <<<<2020, 3, 10>>, <<2021, 3, 11>>>>,
      <<<<2019, 12, 31>>, <<2022, 1, 15>>>>, <<<<2021, 1, 1>>, <<2020, 1, 1>>>> }

\* One call of fetchSummariesRange({api_domain, api_key, start, end}).
InitSummaries ==
    /\ username = "alice"
    /\ api_key \in ApiKeys
    /\ range = ""
    /\ envActual = ""
    /\ envTotal = ""
    /\ variant = "correction"
    /\ debug = FALSE
    /\ today = <<2020, 3, 10>>
    /\ \E r \in SummaryRanges : start = r[1] /\ end = r[2]
    /\ chunks = <<>>
    /\ sumPc = "idle"
    /\ chunkRequests = <<>>
    /\ chunkUpstream = <<>>
    /\ chunkResults = <<>>
    /\ sumResult = <<>>
    /\ StatsIdle
    /\ AllTimeIdle
    /\ HandlerIdle
    /\ CorrIdle

SummariesCall ==
    /\ hPc = "none"
    /\ SummariesCallStep(start, end)
    /\ UNCHANGED <<inputVars, statsVars, allTimeVars, handlerVars, corrVars>>

NextSummaries == SummariesCall \/ ChunkSettle

SpecSummaries == InitSummaries /\ [][NextSummaries]_vars

\* The chunk generation alone, for every start and every span up to MaxSpan.
InitChunks ==
    /\ start \in StartDates
    /\ \E delta \in -2 .. MaxSpan : end = ToISODate(DateParse(start) + delta)
    /\ chunks = <<>>
    /\ sumPc = "init"
    /\ chunkRequests = <<>>
    /\ chunkUpstream = <<>>
    /\ chunkResults = <<>>
    /\ sumResult = <<>>
    /\ InputsIdle
    /\ StatsIdle
    /\ AllTimeIdle
    /\ HandlerIdle
    /\ CorrIdle

\* Lines 131-151 of fetchSummariesRange: the chunk list for start and end.
GenerateStep ==
    /\ sumPc = "init"
    /\ chunks' = GenerateChunks(DateParse(start), DateParse(end))
    /\ sumPc' = "chunked"
    /\ UNCHANGED <<start, end, chunkRequests, chunkUpstream, chunkResults, sumResult>>
    /\ UNCHANGED <<inputVars, statsVars, allTimeVars, handlerVars, corrVars>>

NextChunks == GenerateStep

SpecChunks == InitChunks /\ [][NextChunks]_vars

\* applyCorrection alone.
InitCorrection ==
    /\ \E call \in CorrectionInputs : payload = call[1] /\ hoursArg = call[2]
    /\ corrected = payload
    /\ corrPc = "init"
    /\ InputsIdle
    /\ StatsIdle
    /\ AllTimeIdle
    /\ ChunksIdle
    /\ HandlerIdle

\* One call of applyCorrection(payload, hoursArg).
CorrectStep ==
    /\ corrPc = "init"
    /\ corrected' = applyCorrection(payload, hoursArg)
    /\ corrPc' = "done"
    /\ UNCHANGED <<payload, hoursArg>>
    /\ UNCHANGED <<inputVars, statsVars, allTimeVars, chunkVars, handlerVars>>

NextCorrection == CorrectStep

SpecCorrection == InitCorrection /\ [][NextCorrection]_vars

(***************************************************************************)
(* Properties                                                              *)
(***************************************************************************)

\* The chunk list of the call has been generated.
ChunksGenerated == sumPc \notin {"idle", "init"}

\* The calendar days between the start and the end of chunk i.
ChunkSpan(i) == DateParse(chunks[i].end) - DateParse(chunks[i].start)

\* C1: for start <= end the chunks are ascending, contiguous and non-overlapping, begin
\* on start, end on end (so they hold every day of [start, end] exactly once), and
\* 2020-03-10 .. 2021-03-10 yields exactly 2 chunks.
ChunksCoverRange ==
    (ChunksGenerated /\ DateParse(start) <= DateParse(end)) =>
        /\ Len(chunks) >= 1
        /\ chunks[1].start = start
        /\ chunks[Len(chunks)].end = end
        /\ \A i \in 1 .. Len(chunks) : ChunkSpan(i) >= 0
        /\ \A i \in 1 .. Len(chunks) - 1 :
              DateParse(chunks[i + 1].start) = DateParse(chunks[i].end) + 1
        /\ (start = <<2020, 3, 10>> /\ end = <<2021, 3, 10>> => Len(chunks) = 2)

\* C2: every generated chunk has start <= end and spans at most 365 calendar days
\* (end - start <= 364 days).
ChunksBounded ==
    ChunksGenerated => \A i \in 1 .. Len(chunks) : ChunkSpan(i) >= 0 /\ ChunkSpan(i) <= 364

\* A span of three chunks whose first chunk is a full 365 days.
ChunksBoundedWitness ==
    ChunksGenerated /\ Len(chunks) = 3 /\ ChunkSpan(1) = 364 /\ ChunkSpan(3) < 364

FetchFailed(o) == o.kind = "error"

\* C4: when the fetch of a chunk fails, fetchSummariesRange has returned an error value
\* (error field; no total_seconds, languages or days_count), and no chunk after the
\* failed one is requested.
ChunkFailureAborts ==
    \A i \in DOMAIN chunkUpstream :
        FetchFailed(chunkUpstream[i]) =>
            /\ sumPc = "done"
            /\ Len(sumResult) = 1
            /\ Has(sumResult[1], "error")
            /\ ~Has(sumResult[1], "total_seconds")
            /\ ~Has(sumResult[1], "languages")
            /\ ~Has(sumResult[1], "days_count")
            /\ Len(chunkUpstream) = i
            /\ Len(chunkRequests) = i

\* The second of three chunks timed out after the first had delivered days.
ChunkFailureWitness ==
    /\ Len(chunks) = 3
    /\ Len(chunkUpstream) = 2
    /\ chunkUpstream[2].kind = "error" /\ ~Has(chunkUpstream[2].err, "response")
    /\ chunkResults # <<>> /\ chunkResults[1].days # <<>>
    /\ sumPc = "done"

\* The range of the request after normalisation.
NormalizedRange ==
    IF range \in {"last_7_days", "last_30_days", "last_6_months", "last_year", "all_time"}
    THEN range ELSE "last_7_days"

\* The hours value the deployed module is configured with.
ConfiguredHours ==
    IF variant = "correction" /\ envActual # "" THEN envActual ELSE envTotal

\* The adjustment is due: range all_time and a configured value that parses positive.
AdjustmentDue ==
    /\ NormalizedRange = "all_time"
    /\ ConfiguredHours # ""
    /\ parseFloat(ConfiguredHours) # NaN
    /\ parseFloat(ConfiguredHours)[1] > 0

\* C7: for a stats response with a body, the correction (or the legacy override) is
\* applied iff the normalized range is all_time and the configured hours parse to a
\* positive number, and then exactly once; otherwise the returned payload is the data
\* field of the response, unmodified.
AdjustmentOnlyWhenDue ==
    (statsUpstream # <<>> /\ statsUpstream[1].kind = "json") =>
        LET body == statsUpstream[1].body
        IN /\ correctionCalls = IF AdjustmentDue THEN 1 ELSE 0
           /\ ~AdjustmentDue =>
                 /\ statsPc = "returned"
                 /\ Has(statsResult, "value") = Has(body, "data")
                 /\ Has(body, "data") => statsResult.value = body.data
           /\ (AdjustmentDue /\ Has(body, "data")) =>
                 /\ statsPc = "returned"
                 /\ variant = "correction" =>
                       statsResult.value
                          = applyCorrection(body.data, parseFloat(ConfiguredHours))
                 /\ variant = "override" =>
                       /\ statsResult.value.is_override
                       /\ statsResult.value.total_seconds
                             = HoursToSeconds(parseFloat(ConfiguredHours))
                       /\ ~Has(statsResult.value, "is_corrected")

\* An all_time payload was corrected once, WAKATIME_ACTUAL_HOURS taking precedence.
AdjustmentWitness ==
    /\ statsPc = "returned"
    /\ range = "all_time" /\ variant = "correction"
    /\ envActual = "0.5" /\ envTotal = "3h"
    /\ correctionCalls = 1
    /\ Has(statsResult.value, "is_corrected")
    /\ statsResult.value.correction_factor = <<150, 1>>

\* The stats request was rejected with a response whose status is outside 200-299.
RejectedWithStatus ==
    /\ statsUpstream # <<>>
    /\ statsUpstream[1].kind = "error"
    /\ Has(statsUpstream[1].err, "response")
    /\ (statsUpstream[1].err.response.status < 200
           \/ statsUpstream[1].err.response.status > 299)

\* The call failed with WAKATIME_USER_NOT_FOUND.
UserNotFound ==
    /\ statsPc = "thrown"
    /\ statsResult.error.name = "CustomError"
    /\ statsResult.error.type = "WAKATIME_USER_NOT_FOUND"

\* C8 (as stated): a rejection with a status outside 200-299 fails with
\* WAKATIME_USER_NOT_FOUND carrying the requested subject, which is "current" whenever
\* a credential was used.
NotFoundCarriesRequestedSubject ==
    RejectedWithStatus =>
        /\ UserNotFound
        /\ statsResult.error.login = IF api_key # "" THEN "current" ELSE username

\* C8 (amended): a rejection with a status outside 200-299 fails with
\* WAKATIME_USER_NOT_FOUND carrying the supplied username when one was supplied (also
\* when the request was authenticated), and "current" only when none was supplied.
NotFoundCarriesUsername ==
    RejectedWithStatus =>
        /\ UserNotFound
        /\ statsResult.error.login = IF username # "" THEN username ELSE "current"

\* An authenticated request with a username was rejected with 401.
NotFoundWitness ==
    /\ RejectedWithStatus
    /\ statsUpstream[1].err.response.status = 401
    /\ username = "alice" /\ api_key = "key"
    /\ UserNotFound
    /\ statsResult.error.login = "alice"

\* C9: an exception raised during the fetch that is no response with a status outside
\* 200-299 leaves fetchWakatimeStats as that same exception.
OtherExceptionsPropagateUnchanged ==
    (statsPc = "thrown" /\ statsRaised # <<>> /\ ~RejectedWithStatus) =>
        statsResult.error = statsRaised[1]

\* C10: with neither username nor credential the call fails with the missing-parameter
\* error naming "username" and no request is issued; with either present the error is
\* not raised.
MissingParamIffBothAbsent ==
    statsPc # "idle" =>
        IF username = "" /\ api_key = ""
        THEN /\ statsPc = "thrown"
             /\ statsResult.error = [name |-> "MissingParamError", params |-> <<"username">>]
             /\ statsRequests = <<>>
        ELSE ~(statsPc = "thrown" /\ statsResult.error.name = "MissingParamError")

\* A call without username and credential has thrown without a request.
MissingParamWitness ==
    /\ username = "" /\ api_key = ""
    /\ statsPc = "thrown"
    /\ statsResult.error.name = "MissingParamError"
    /\ statsRequests = <<>>

\* The total the API reported for a payload: the total including other languages,
\* else the plain total, else 0.
ReportedTotal(p) ==
    IF Has(p, "total_seconds_including_other_language")
          /\ p.total_seconds_including_other_language # 0
    THEN p.total_seconds_including_other_language
    ELSE IF Has(p, "total_seconds") THEN p.total_seconds ELSE 0

\* The seconds of a language entry (an entry without seconds counts 0).
LangSeconds(l) == IF Has(l, "total_seconds") THEN l.total_seconds ELSE 0

\* C5: with a positive API total T and hours H, the factor is H * 3600 / T; every
\* language keeps its position, name and percent and gets round(seconds * factor)
\* (exactly double for T = 100000 and H * 3600 = 200000); the payload is marked
\* is_corrected with correction_factor = factor.
CorrectionScalesLanguages ==
    (corrPc = "done" /\ ReportedTotal(payload) > 0) =>
        LET factor == Rat(hoursArg[1] * 3600, hoursArg[2] * ReportedTotal(payload))
        IN /\ Has(corrected, "is_corrected") /\ corrected.is_corrected = TRUE
           /\ Has(corrected, "correction_factor") /\ corrected.correction_factor = factor
           /\ Has(payload, "languages") =>
                 /\ Len(corrected.languages) = Len(payload.languages)
                 /\ \A i \in 1 .. Len(payload.languages) :
                       /\ corrected.languages[i].total_seconds
                             = RoundMul(LangSeconds(payload.languages[i]), factor)
                       /\ corrected.languages[i].name = payload.languages[i].name
                       /\ Has(corrected.languages[i], "percent")
                       /\ corrected.languages[i].percent = payload.languages[i].percent
                       /\ (ReportedTotal(payload) = 100000 /\ factor = <<2, 1>>) =>
                             corrected.languages[i].total_seconds
                                = 2 * payload.languages[i].total_seconds

\* The documented example: API total 100000 s, actual 200000 s, seconds doubled.
CorrectionScalesLanguagesWitness ==
    /\ corrPc = "done"
    /\ payload = BigPayload
    /\ hoursArg = BigHours
    /\ corrected.correction_factor = <<2, 1>>
    /\ corrected.languages[1].total_seconds = 120000
    /\ corrected.languages[2].percent = 30

\* C6: when the API total is 0 or missing the returned payload is the argument, every
\* field unchanged, and neither is_corrected nor correction_factor is set.
CorrectionNoopOnZeroTotal ==
    (corrPc = "done" /\ ReportedTotal(payload) = 0) =>
        /\ corrected = payload
        /\ ~Has(corrected, "is_corrected")
        /\ ~Has(corrected, "correction_factor")

\* A payload with total 0 and languages went through applyCorrection.
CorrectionNoopWitness ==
    /\ corrPc = "done"
    /\ Has(payload, "total_seconds") /\ payload.total_seconds = 0
    /\ ~Has(payload, "total_seconds_including_other_language")
    /\ Has(payload, "languages")
    /\ corrected = payload

\* The request of the call, once one was issued.
IssuedRequest == statsRequests[1]

\* C11: a call that passes the parameter check issues exactly one stats request; with a
\* credential its subject is "current" and it carries the Basic authorization header
\* made of credential + ":", without one its subject is the supplied username and it
\* carries no authorization header.
OneRequestWithAuthMode ==
    /\ Len(statsRequests) <= 1
    /\ (statsPc # "idle" /\ (username # "" \/ api_key # "")) =>
          /\ Len(statsRequests) = 1
          /\ IF api_key # ""
             THEN /\ IssuedRequest.subject = "current"
                  /\ Has(IssuedRequest, "Authorization")
                  /\ IssuedRequest.Authorization = <<"Basic", <<"base64", api_key, ":">>>>
             ELSE /\ IssuedRequest.subject = username
                  /\ ~Has(IssuedRequest, "Authorization")

\* {username: "alice", range: "bogus"} without credential: the call returned after one
\* request for subject alice, range last_7_days, without authorization header.
OneRequestWitness ==
    /\ statsPc = "returned"
    /\ username = "alice" /\ range = "bogus" /\ api_key = ""
    /\ statsRequests = <<[subject |-> "alice", range |-> "last_7_days",
                          is_including_today |-> TRUE]>>

\* C12: the range of the stats request is the requested range when that is one of the
\* five valid ranges and last_7_days for every other value and for a missing one;
\* normalizing the normalized range returns it unchanged, and every call that passes
\* the parameter check gets its request (the normalization raises nothing).
RangeNormalized ==
    (statsPc # "idle" /\ (username # "" \/ api_key # "")) =>
        /\ statsRequests # <<>>
        /\ IssuedRequest.range =
              IF range \in {"last_7_days", "last_30_days", "last_6_months",
                            "last_year", "all_time"}
              THEN range ELSE "last_7_days"
        /\ NormalizeRange(IssuedRequest.range) = IssuedRequest.range
        /\ ~(statsPc = "thrown" /\ statsUpstream = <<>>)

\* A call without range was sent with last_7_days, with a credential.
RangeNormalizedWitness ==
    /\ statsPc = "returned"
    /\ range = "" /\ api_key = "key"
    /\ statsRequests # <<>>
    /\ IssuedRequest.range = "last_7_days"

\* C13: without credential fetchAllTimeSinceToday and fetchSummariesRange each return
\* {error: "no_api_key"} as soon as they are called and issue no request, so a debug
\* request without credential issues the stats request and no other.
NoCredentialNoDiagnosticRequests ==
    api_key = "" =>
        /\ allTimeRequests = <<>>
        /\ chunkRequests = <<>>
        /\ Len(statsRequests) <= 1
        /\ (debug /\ hPc = "awaiting") => (allTimePc # "idle" /\ sumPc # "idle")
        /\ allTimePc # "idle" =>
              allTimePc = "done" /\ allTimeResult = <<[error |-> <<"no_api_key">>]>>
        /\ sumPc # "idle" =>
              sumPc = "done" /\ sumResult = <<[error |-> <<"no_api_key">>]>>

\* A debug request for alice without credential was answered after one stats request;
\* both diagnostics of the response are the no_api_key value.
NoCredentialWitness ==
    /\ debug /\ api_key = "" /\ username = "alice"
    /\ hPc = "responded" /\ response.kind = "debug"
    /\ Len(statsRequests) = 1
    /\ allTimeRequests = <<>> /\ chunkRequests = <<>>
    /\ response.all_time_since_today = [error |-> [error |-> <<"no_api_key">>]]
    /\ response.summaries_range = [error |-> [error |-> <<"no_api_key">>]]

\* C14: with a credential fetchAllTimeSinceToday returns for every outcome of its
\* request: the data field of the response when the request succeeded, and for an
\* error status, a transport failure or a body that cannot be read a value with the
\* error message and the status of the response (undefined when there was none), which
\* is not the exception.
AllTimeFailuresReturned ==
    (api_key # "" /\ allTimeUpstream # <<>>) =>
        LET o == allTimeUpstream[1]
        IN /\ allTimePc = "done"
           /\ Len(allTimeRequests) = 1
           /\ o.kind = "json" =>
                 allTimeResult = IF Has(o.body, "data") THEN <<o.body.data>> ELSE <<>>
           /\ o.kind \in {"error", "null"} =>
                 /\ Len(allTimeResult) = 1
                 /\ Has(allTimeResult[1], "error")
                 /\ ~Has(allTimeResult[1], "name")
                 /\ DOMAIN allTimeResult[1] \subseteq {"error", "status"}
           /\ o.kind = "error" =>
                 /\ allTimeResult[1].error = <<"AxiosError", o.err.code>>
                 /\ Has(allTimeResult[1], "status") = Has(o.err, "response")
                 /\ Has(o.err, "response") =>
                       allTimeResult[1].status = o.err.response.status

\* The all-time request of a debug request failed in transport; the call returned the
\* error value and the debug response carries it.
AllTimeFailureWitness ==
    /\ api_key = "key"
    /\ allTimeUpstream # <<>>
    /\ allTimeUpstream[1].kind = "error" /\ ~Has(allTimeUpstream[1].err, "response")
    /\ allTimeResult = <<[error |-> <<"AxiosError", "ERR_NETWORK">>]>>
    /\ hPc = "responded" /\ response.kind = "debug"
    /\ Has(response.all_time_since_today, "error")

\* The chunk requests that were issued and have not settled.
ChunksInFlight == Len(chunkRequests) - Len(chunkUpstream)

\* C15: within one call at most one chunk request is in flight; the i-th request is the
\* one for the i-th chunk, so the requests ascend in date and no chunk is requested
\* twice; a request follows only after every earlier one returned a response.
ChunksFetchedInSequence ==
    /\ ChunksInFlight \in {0, 1}
    /\ ChunksInFlight = 1 <=> sumPc = "fetching"
    /\ Len(chunkRequests) <= Len(chunks)
    /\ \A i \in DOMAIN chunkRequests :
          /\ chunkRequests[i].start = chunks[i].start
          /\ chunkRequests[i].end = chunks[i].end
    /\ \A i \in 1 .. Len(chunkRequests) - 1 :
          /\ DateParse(chunkRequests[i].end) < DateParse(chunkRequests[i + 1].start)
          /\ i <= Len(chunkUpstream)
          /\ chunkUpstream[i].kind = "json"

\* The third chunk is in flight after the first two returned.
ChunksInSequenceWitness ==
    /\ Len(chunks) = 3
    /\ Len(chunkRequests) = 3
    /\ Len(chunkUpstream) = 2
    /\ sumPc = "fetching"

\* C16: once the response of a debug request has been sent, the stats call, the all-time
\* call and the summaries call of that request have all completed, and no request of
\* theirs is in flight.
DebugRespondsAfterJoin ==
    (debug /\ hPc = "responded" /\ response.kind \in {"debug", "debugError"}) =>
        /\ statsPc \in {"returned", "thrown"}
        /\ allTimePc = "done"
        /\ sumPc = "done"
        /\ Len(allTimeRequests) = Len(allTimeUpstream)
        /\ ChunksInFlight = 0

RECURSIVE SetSum(_, _)
\* The sum of f over the finite set S.
SetSum(f, S) ==
    IF S = {} THEN 0
    ELSE LET x == CHOOSE x \in S : TRUE IN f[x] + SetSum(f, S \ {x})

\* Every chunk of the call was fetched and delivered an array of days (or no data).
AllChunksDelivered ==
    /\ api_key # ""
    /\ sumPc = "done"
    /\ Len(chunkUpstream) = Len(chunks)
    /\ \A i \in DOMAIN chunkUpstream :
          /\ chunkUpstream[i].kind = "json"
          /\ Has(chunkUpstream[i].body, "data") => Has(chunkUpstream[i].body.data, "days")

\* The days chunk i delivered.
DeliveredDays(i) ==
    IF Has(chunkUpstream[i].body, "data") THEN chunkUpstream[i].body.data.days ELSE <<>>

\* <<i, j>>: day j of chunk i; <<i, j, k>>: language k of that day.
DeliveredDayIndex ==
    UNION {{<<i, j>> : j \in DOMAIN DeliveredDays(i)} : i \in DOMAIN chunkUpstream}
DeliveredLangIndex ==
    UNION {IF Has(DeliveredDays(p[1])[p[2]], "languages")
           THEN {<<p[1], p[2], k>> : k \in DOMAIN DeliveredDays(p[1])[p[2]].languages}
           ELSE {} : p \in DeliveredDayIndex}
DeliveredLang(q) == DeliveredDays(q[1])[q[2]].languages[q[3]]

\* The seconds language name was reported with, over all days of all chunks.
DeliveredLangSeconds(name) ==
    LET S == {q \in DeliveredLangIndex : DeliveredLang(q).name = name}
    IN SetSum([q \in S |-> LangSeconds(DeliveredLang(q))], S)

\* C17: when every chunk was delivered the aggregate has total_seconds = the sum of the
\* days' grand totals (a missing one counts 0), days_count = the number of days of all
\* chunks, and languages with one entry per distinct language name, whose total_seconds
\* is the sum of that language's seconds over all days, in non-increasing order.
AggregateSums ==
    AllChunksDelivered =>
        LET agg == sumResult[1]
            names == {DeliveredLang(q).name : q \in DeliveredLangIndex}
        IN /\ ~Has(agg, "error")
           /\ agg.total_seconds
                 = SetSum([p \in DeliveredDayIndex |->
                              LET day == DeliveredDays(p[1])[p[2]]
                              IN IF Has(day, "grand_total")
                                    /\ Has(day.grand_total, "total_seconds")
                                 THEN day.grand_total.total_seconds ELSE 0],
                          DeliveredDayIndex)
           /\ agg.days_count = Cardinality(DeliveredDayIndex)
           /\ Len(agg.languages) = Cardinality(names)
           /\ {agg.languages[k].name : k \in DOMAIN agg.languages} = names
           /\ \A k \in DOMAIN agg.languages :
                 agg.languages[k].total_seconds
                    = DeliveredLangSeconds(agg.languages[k].name)
           /\ \A k \in 1 .. Len(agg.languages) - 1 :
                 agg.languages[k].total_seconds >= agg.languages[k + 1].total_seconds

\* Two chunks of two days each: 200 s in 4 days, JS 180 s before Go 80 s before C 0 s.
AggregateSumsWitness ==
    /\ AllChunksDelivered
    /\ Len(chunks) = 2
    /\ \A i \in 1 .. 2 : Len(DeliveredDays(i)) = 2
    /\ sumResult[1].total_seconds = 200
    /\ sumResult[1].days_count = 4
    /\ Len(sumResult[1].languages) = 3
    /\ sumResult[1].languages[1].name = "JS"
    /\ sumResult[1].languages[1].total_seconds = 180
    /\ sumResult[1].languages[2].total_seconds = 80

\* C18: in every aggregate each language's percent is its seconds as a share of the
\* grand total and lies in [0, 100]; with a grand total of 0 every percent is exactly 0
\* (no NaN), also when a day reports language seconds and no grand total.
PercentIsShareWithinBounds ==
    (api_key # "" /\ sumPc = "done" /\ Has(sumResult[1], "languages")) =>
        LET agg == sumResult[1]
        IN \A k \in DOMAIN agg.languages :
              LET lang == agg.languages[k]
              IN /\ lang.percent # NaN
                 /\ agg.total_seconds = 0 => lang.percent = <<0, 1>>
                 /\ agg.total_seconds > 0 =>
                       lang.percent[1] * agg.total_seconds
                          = lang.total_seconds * 100 * lang.percent[2]
                 /\ lang.percent[1] >= 0
                 /\ lang.percent[1] <= 100 * lang.percent[2]

\* C19: for a payload with a positive API total and factor f the corrected total_seconds
\* is round(total_seconds * f) and the corrected total including other languages is
\* round(t * f), t being the input total including other languages or, when that is
\* absent or 0, the input total_seconds; so it equals round(actualHours * 3600), and
\* its text is formatted from that value.
CorrectionScalesTotalsOnce ==
    (corrPc = "done" /\ ReportedTotal(payload) > 0) =>
        LET factor == Rat(hoursArg[1] * 3600, hoursArg[2] * ReportedTotal(payload))
            actualSeconds == RoundMul(3600, hoursArg)
        IN /\ corrected.total_seconds = RoundMul(payload.total_seconds, factor)
           /\ corrected.total_seconds_including_other_language
                 = RoundMul(ReportedTotal(payload), factor)
           /\ corrected.total_seconds_including_other_language = actualSeconds
           /\ corrected.human_readable_total_including_other_language
                 = [hrs |-> actualSeconds \div 3600, mins |-> (actualSeconds % 3600) \div 60]

====
